---- MODULE Spec2Model ----
(***************************************************************************)
(* Model of src/cinna-graphrag/app.py: a FastAPI application with two      *)
(* routes, GET "/" (root) and POST "/recommendations" (recommend_movies).  *)
(*                                                                         *)
(* A call is one HTTP request served by the application.  Calls are served *)
(* concurrently (both handlers are plain "def" functions, which the        *)
(* framework runs on worker threads), so the steps of different calls      *)
(* interleave freely.                                                      *)
(*                                                                         *)
(* Python objects that are mutable and handed out by reference (the list   *)
(* "movies" and the dicts in it) live in a heap, so that sharing between   *)
(* calls is something the model can express.                               *)
(*                                                                         *)
(* Request validation is the pydantic model RecommendationRequest as       *)
(* pydantic 2 applies it to a JSON body: List[str] accepts a JSON array    *)
(* whose elements are all JSON strings and nothing else.                   *)
(*                                                                         *)
(* vote_average is a Python float with one decimal; it is kept here in     *)
(* tenths (8.8 is 88), since the model has integers only.                  *)
(***************************************************************************)
EXTENDS Integers, Sequences, FiniteSets, TLC

\* ---------------------------------------------------------------- bounds

\* Number of calls made to the application in one behaviour.
NumCalls == 2

\* Longest JSON array sent as "genres".
MaxLen == 2

\* Number of changes callers make to objects they were handed.
MaxChanges == 1

Calls == 1..NumCalls

\* ------------------------------------------------------------ JSON input

\* JSON scalars a client may put where a genre is expected.
JStr(s) == [t |-> "str", s |-> s]
JInt(s) == [t |-> "int", s |-> s]
JNull == [t |-> "null", s |-> "null"]

\* Genre strings: two names and the empty string.
GenreStrings == {"horror", "comedy", ""}

RECURSIVE SeqsUpTo(_, _)
SeqsUpTo(S, n) ==
    IF n = 0 THEN {<<>>}
    ELSE LET shorter == SeqsUpTo(S, n - 1)
         IN  shorter \cup {Append(q, x) : q \in {r \in shorter : Len(r) = n - 1}, x \in S}

\* The value of the "genres" key: a JSON array of scalars, or a scalar.
JList(items) == [t |-> "list", s |-> "", items |-> items]
JScalar(a) == [t |-> a.t, s |-> a.s, items |-> <<>>]

\* A request body: a JSON object that has the key "genres" or not.
Body(has, v) == [has_genres |-> has, genres |-> v]
NoBody == Body(FALSE, JScalar(JNull))

\* Bodies of the right shape: every array of genre strings up to MaxLen.
ValidBodies ==
    {Body(TRUE, JList(q)) : q \in SeqsUpTo({JStr(s) : s \in GenreStrings}, MaxLen)}

\* Bodies of the wrong shape: no "genres" key; "genres" null, a string or
\* a number; an array with an element that is no string.
MalformedBodies ==
    { NoBody,
      Body(TRUE, JScalar(JNull)),
      Body(TRUE, JScalar(JStr("horror"))),
      Body(TRUE, JScalar(JInt("7"))),
      Body(TRUE, JList(<<JInt("1")>>)),
      Body(TRUE, JList(<<JStr("horror"), JNull>>)) }

Get == [route |-> "GET /", body |-> NoBody]
Post(b) == [route |-> "POST /recommendations", body |-> b]

\* The requests of the serial specification: every body above.
Requests == {Get} \cup {Post(b) : b \in ValidBodies \cup MalformedBodies}

\* The requests of the concurrent specification: the health check, a body
\* without "genres", the empty genre list and a list of two genres.
ConcurrentRequests ==
    { Get,
      Post(NoBody),
      Post(Body(TRUE, JList(<<>>))),
      Post(Body(TRUE, JList(<<JStr("horror"), JStr("comedy")>>))) }

NoRequest == [route |-> "none", body |-> NoBody]

\* ---------------------------------------------------------------- state

VARIABLES
    pc,        \* where each call is
    req,       \* the request of each call
    genres,    \* request.genres of each call, once validated
    ref,       \* the object the local "movies" of each call names (0: none)
    heap,      \* the list objects
    live,      \* the objects allocated so far
    outcome,   \* "pending", "ok" or "client_error"
    result,    \* the body sent back, as it was when the call returned
    ran,       \* whether the body of recommend_movies was entered
    changes,   \* history: number of changes callers made so far
    seen       \* history: the value of changes when the call built its list

vars == <<pc, req, genres, ref, heap, live, outcome, result, ran, changes, seen>>

\* ------------------------------------------------------------- the code

\* Mutant: the field is declared with a default (genres: List[str] = []),
\* so a body without the key is accepted.
RecommendationRequest_default(b) ==
    IF ~b.has_genres
    THEN [ok |-> TRUE, error |-> "", genres |-> <<>>]
    ELSE IF b.genres.t # "list"
    THEN [ok |-> FALSE, error |-> "list_type", genres |-> <<>>]
    ELSE IF \E i \in 1..Len(b.genres.items) : b.genres.items[i].t # "str"
    THEN [ok |-> FALSE, error |-> "string_type", genres |-> <<>>]
    ELSE [ok |-> TRUE, error |-> "",
          genres |-> [i \in 1..Len(b.genres.items) |-> b.genres.items[i].s]]

\* Mutant: genre strings are constrained to be non-empty (min_length=1).
RecommendationRequest_nonempty(b) ==
    IF ~b.has_genres
    THEN [ok |-> FALSE, error |-> "missing", genres |-> <<>>]
    ELSE IF b.genres.t # "list"
    THEN [ok |-> FALSE, error |-> "list_type", genres |-> <<>>]
    ELSE IF \E i \in 1..Len(b.genres.items) : b.genres.items[i].t # "str"
    THEN [ok |-> FALSE, error |-> "string_type", genres |-> <<>>]
    ELSE IF \E i \in 1..Len(b.genres.items) : b.genres.items[i].s = ""
    THEN [ok |-> FALSE, error |-> "string_too_short", genres |-> <<>>]
    ELSE [ok |-> TRUE, error |-> "",
          genres |-> [i \in 1..Len(b.genres.items) |-> b.genres.items[i].s]]

\* class RecommendationRequest(BaseModel): genres: List[str]
\* The outcome of validating a body against the model: the parsed genres,
\* or the kind of the validation error.
RecommendationRequest(b) ==
    IF ~b.has_genres
    THEN [ok |-> FALSE, error |-> "missing", genres |-> <<>>]
    ELSE IF b.genres.t # "list"
    THEN [ok |-> FALSE, error |-> "list_type", genres |-> <<>>]
    ELSE IF \E i \in 1..Len(b.genres.items) : b.genres.items[i].t # "str"
    THEN [ok |-> FALSE, error |-> "string_type", genres |-> <<>>]
    ELSE [ok |-> TRUE, error |-> "",
          genres |-> [i \in 1..Len(b.genres.items) |-> b.genres.items[i].s]]

\* Mutant: the status reports whether a recommendation was ever built.
root_stateful ==
    [status |-> IF live = {} THEN "Cinna GraphRAG backend is running!"
                ELSE "Cinna GraphRAG backend is busy!"]

\* def root(): return {"status": "Cinna GraphRAG backend is running!"}
root == [status |-> "Cinna GraphRAG backend is running!"]

\* Mutant: the records are listed by release date.
movies_by_date ==
    << [id |-> 1,
        title |-> "Inception",
        overview |-> "A thief enters dreams to steal secrets.",
        release_date |-> "2010-07-16",
        poster_path |-> "/9gk7adHYeDvHkCSEqAvQNLV5Uge.jpg",
        vote_average |-> 88],
       [id |-> 3,
        title |-> "Interstellar",
        overview |-> "A crew travels through a wormhole for humanity.",
        release_date |-> "2014-11-07",
        poster_path |-> "/gEU2QniE6E77NI6lCU6MxlNBvIx.jpg",
        vote_average |-> 87],
       [id |-> 2,
        title |-> "Dune: Part Two",
        overview |-> "Paul unites with the Fremen against Harkonnen.",
        release_date |-> "2024-03-01",
        poster_path |-> "/1E5baAaEse26fej7uHcjOgEE2t2.jpg",
        vote_average |-> 86] >>

\* Mutant: the third record was pasted from the second and kept its id.
movies_pasted_id ==
    << [id |-> 1,
        title |-> "Inception",
        overview |-> "A thief enters dreams to steal secrets.",
        release_date |-> "2010-07-16",
        poster_path |-> "/9gk7adHYeDvHkCSEqAvQNLV5Uge.jpg",
        vote_average |-> 88],
       [id |-> 2,
        title |-> "Dune: Part Two",
        overview |-> "Paul unites with the Fremen against Harkonnen.",
        release_date |-> "2024-03-01",
        poster_path |-> "/1E5baAaEse26fej7uHcjOgEE2t2.jpg",
        vote_average |-> 86],
       [id |-> 2,
        title |-> "Interstellar",
        overview |-> "A crew travels through a wormhole for humanity.",
        release_date |-> "2014-11-07",
        poster_path |-> "/gEU2QniE6E77NI6lCU6MxlNBvIx.jpg",
        vote_average |-> 87] >>

\* The list literal assigned to the local "movies".
movies ==
    << [id |-> 1,
        title |-> "Inception",
        overview |-> "A thief enters dreams to steal secrets.",
        release_date |-> "2010-07-16",
        poster_path |-> "/9gk7adHYeDvHkCSEqAvQNLV5Uge.jpg",
        vote_average |-> 88],
       [id |-> 2,
        title |-> "Dune: Part Two",
        overview |-> "Paul unites with the Fremen against Harkonnen.",
        release_date |-> "2024-03-01",
        poster_path |-> "/1E5baAaEse26fej7uHcjOgEE2t2.jpg",
        vote_average |-> 86],
       [id |-> 3,
        title |-> "Interstellar",
        overview |-> "A crew travels through a wormhole for humanity.",
        release_date |-> "2014-11-07",
        poster_path |-> "/gEU2QniE6E77NI6lCU6MxlNBvIx.jpg",
        vote_average |-> 87] >>

\* Mutant: the list is built once and kept (a module-level list, or a
\* mutable default argument); every call is handed the same object.
NewMovies_shared(h, l, c) ==
    [heap |-> IF 1 \in l THEN h ELSE [h EXCEPT ![1] = movies],
     live |-> l \cup {1},
     ref |-> 1]

\* Evaluating the list literal in call c: a new list object, owned by the
\* call, is allocated and filled.  h is the heap, l the set of live objects.
NewMovies(h, l, c) ==
    [heap |-> [h EXCEPT ![c] = movies], live |-> l \cup {c}, ref |-> c]

\* First occurrences of the elements of q, in order.
RECURSIVE Dedup(_)
Dedup(q) ==
    IF q = <<>> THEN <<>>
    ELSE LET front == Dedup(SubSeq(q, 1, Len(q) - 1))
             last == q[Len(q)]
         IN  IF \E i \in 1..Len(front) : front[i] = last THEN front
             ELSE Append(front, last)

\* Mutant: the movies are cut down by the genres asked for.
recommend_result_filtered(g, m) ==
    [query |-> g, response |-> IF g = <<>> THEN m ELSE SubSeq(m, 1, 2)]

\* Mutant: the genres are deduplicated before they are echoed.
recommend_result_dedup(g, m) == [query |-> Dedup(g), response |-> m]

\* Mutant: the result carries a count next to the two fields.
recommend_result_count(g, m) == [query |-> g, response |-> m, count |-> Len(m)]

\* return {"query": request.genres, "response": movies}
recommend_result(g, m) == [query |-> g, response |-> m]

NoResult == [pending |-> TRUE]

Init ==
    /\ pc = [c \in Calls |-> "idle"]
    /\ req = [c \in Calls |-> NoRequest]
    /\ genres = [c \in Calls |-> <<>>]
    /\ ref = [c \in Calls |-> 0]
    /\ heap = [a \in Calls |-> <<>>]
    /\ live = {}
    /\ outcome = [c \in Calls |-> "pending"]
    /\ result = [c \in Calls |-> NoResult]
    /\ ran = [c \in Calls |-> FALSE]
    /\ changes = 0
    /\ seen = [c \in Calls |-> 0]

\* The framework routes a request: GET / goes to root, POST
\* /recommendations to validation of the body.  Calls are numbered in the
\* order of their arrival.
Receive(c, r) ==
    /\ pc[c] = "idle"
    /\ \A d \in Calls : d < c => pc[d] # "idle"
    /\ req' = [req EXCEPT ![c] = r]
    /\ pc' = [pc EXCEPT ![c] = IF r.route = "GET /" THEN "root" ELSE "validate"]
    /\ UNCHANGED <<genres, ref, heap, live, outcome, result, ran, changes, seen>>

\* The handler of GET /.
Root(c) ==
    /\ pc[c] = "root"
    /\ result' = [result EXCEPT ![c] = root]
    /\ outcome' = [outcome EXCEPT ![c] = "ok"]
    /\ pc' = [pc EXCEPT ![c] = "done"]
    /\ UNCHANGED <<req, genres, ref, heap, live, ran, changes, seen>>

\* The framework builds the RecommendationRequest parameter from the body;
\* on a validation error it answers with a client error and never calls
\* recommend_movies.
Validate(c) ==
    /\ pc[c] = "validate"
    /\ LET v == RecommendationRequest(req[c].body)
       IN  IF v.ok
           THEN /\ genres' = [genres EXCEPT ![c] = v.genres]
                /\ pc' = [pc EXCEPT ![c] = "build"]
                /\ UNCHANGED <<outcome, result>>
           ELSE /\ outcome' = [outcome EXCEPT ![c] = "client_error"]
                /\ result' = [result EXCEPT ![c] = [detail |-> v.error]]
                /\ pc' = [pc EXCEPT ![c] = "rejected"]
                /\ UNCHANGED genres
    /\ UNCHANGED <<req, ref, heap, live, ran, changes, seen>>

\* recommend_movies, first statement: movies = [...]
BuildMovies(c) ==
    /\ pc[c] = "build"
    /\ LET n == NewMovies(heap, live, c)
       IN  /\ heap' = n.heap
           /\ live' = n.live
           /\ ref' = [ref EXCEPT ![c] = n.ref]
    /\ ran' = [ran EXCEPT ![c] = TRUE]
    /\ seen' = [seen EXCEPT ![c] = changes]
    /\ pc' = [pc EXCEPT ![c] = "return"]
    /\ UNCHANGED <<req, genres, outcome, result, changes>>

\* recommend_movies, second statement: the return.
Return(c) ==
    /\ pc[c] = "return"
    /\ result' = [result EXCEPT ![c] = recommend_result(genres[c], heap[ref[c]])]
    /\ outcome' = [outcome EXCEPT ![c] = "ok"]
    /\ pc' = [pc EXCEPT ![c] = "done"]
    /\ UNCHANGED <<req, genres, ref, heap, live, ran, changes, seen>>

\* What a caller may do to the list it was handed: remove its last element,
\* or overwrite a field of its first record.
Changed(l, how) ==
    IF how = "pop" THEN SubSeq(l, 1, Len(l) - 1)
    ELSE [l EXCEPT ![1] = [l[1] EXCEPT !.title = "changed"]]

\* A caller that holds the returned object changes it.
Mutate(c, how) ==
    /\ pc[c] = "done"
    /\ ref[c] # 0
    /\ changes < MaxChanges
    /\ Len(heap[ref[c]]) > 0
    /\ heap' = [heap EXCEPT ![ref[c]] = Changed(heap[ref[c]], how)]
    /\ changes' = changes + 1
    /\ UNCHANGED <<pc, req, genres, ref, live, outcome, result, ran, seen>>

\* Calls served concurrently: their steps interleave.
Next ==
    \/ \E c \in Calls, r \in ConcurrentRequests : Receive(c, r)
    \/ \E c \in Calls : Root(c)
    \/ \E c \in Calls : Validate(c)
    \/ \E c \in Calls : BuildMovies(c)
    \/ \E c \in Calls : Return(c)
    \/ \E c \in Calls, how \in {"pop", "retitle"} : Mutate(c, how)

Spec == Init /\ [][Next]_vars

\* Calls served one after the other: a request arrives when every earlier
\* call has ended.
ReceiveSerial(c, r) ==
    /\ \A d \in Calls : d < c => pc[d] \in {"done", "rejected"}
    /\ Receive(c, r)

NextSerial ==
    \/ \E c \in Calls, r \in Requests : ReceiveSerial(c, r)
    \/ \E c \in Calls : Root(c)
    \/ \E c \in Calls : Validate(c)
    \/ \E c \in Calls : BuildMovies(c)
    \/ \E c \in Calls : Return(c)

SpecSerial == Init /\ [][NextSerial]_vars

\* ----------------------------------------------------------- properties

\* The call was a POST /recommendations and recommend_movies returned.
Recommended(c) == pc[c] = "done" /\ req[c].route = "POST /recommendations"

\* The call has ended, with a result or with a client error.
Ended(c) == pc[c] \in {"done", "rejected"}

\* The strings of a JSON array of strings, read off the request body.
Sent(c) == req[c].body.genres.items

MovieFields == {"id", "title", "overview", "release_date", "poster_path", "vote_average"}

\* C1: the response field of every result of recommend is one and the same
\* sequence of exactly three records, whatever the genres of the request and
\* whatever calls came before.
C1_ResponseIsConstant ==
    \A c \in Calls, d \in Calls :
        Recommended(c) /\ Recommended(d) =>
            /\ Len(result[c].response) = 3
            /\ result[c].response = result[d].response

\* Two calls with different genres, the first with none, have both returned.
C1_Witness ==
    \E c \in Calls, d \in Calls :
        /\ c < d
        /\ Recommended(c) /\ Recommended(d)
        /\ Sent(c) = <<>>
        /\ Sent(d) # <<>>
        /\ result[c].response = result[d].response

\* C2: the query field of every result of recommend is the genres array of
\* the request: same length, same string at every position.
C2_QueryEchoesGenres ==
    \A c \in Calls :
        Recommended(c) =>
            /\ Len(result[c].query) = Len(Sent(c))
            /\ \A i \in 1..Len(Sent(c)) : result[c].query[i] = Sent(c)[i].s

\* A request with a duplicated genre, and one with an empty string after a
\* name (so not sorted), were echoed.
C2_Witness ==
    \E c \in Calls, d \in Calls :
        /\ Recommended(c) /\ result[c].query = <<"horror", "horror">>
        /\ Recommended(d) /\ result[d].query = <<"horror", "">>

\* C3: a POST /recommendations with a malformed body ends in a client error
\* raised by validation: recommend_movies is never entered for it and no
\* query/response result is sent.
C3_MalformedIsRejected ==
    \A c \in Calls :
        req[c].route = "POST /recommendations" /\ req[c].body \in MalformedBodies =>
            /\ pc[c] \in {"validate", "rejected"}
            /\ ~ran[c]
            /\ ref[c] = 0
            /\ pc[c] = "rejected" =>
                  /\ outcome[c] = "client_error"
                  /\ DOMAIN result[c] \cap {"query", "response"} = {}

\* A body without genres and a body whose genres is an array holding a
\* number were both rejected.
C3_Witness ==
    \E c \in Calls, d \in Calls :
        /\ pc[c] = "rejected" /\ ~req[c].body.has_genres
        /\ pc[d] = "rejected" /\ req[d].body = Body(TRUE, JList(<<JInt("1")>>))
        /\ outcome[c] = "client_error" /\ outcome[d] = "client_error"

\* C4: every health check returns the record with the single key status and
\* the one constant string, whatever calls ran before or alongside it.
C4_RootIsFixed ==
    \A c \in Calls :
        pc[c] = "done" /\ req[c].route = "GET /" =>
            /\ outcome[c] = "ok"
            /\ DOMAIN result[c] = {"status"}
            /\ result[c].status = "Cinna GraphRAG backend is running!"

\* A health check returned after a recommend call that arrived earlier had
\* returned.
C4_Witness ==
    \E c \in Calls, d \in Calls :
        /\ c < d
        /\ Recommended(c)
        /\ pc[d] = "done" /\ req[d].route = "GET /"
        /\ result[d].status = "Cinna GraphRAG backend is running!"

\* The result a request gets when it is the only call served.
Alone(r) ==
    IF r.route = "GET /" THEN root
    ELSE LET v == RecommendationRequest(r.body)
         IN  IF v.ok THEN recommend_result(v.genres, movies)
             ELSE [detail |-> v.error]

\* C5: under any interleaving, the result of a call is the result its own
\* request gets when served alone, and no two calls use the same list object.
C5_CallsAreIndependent ==
    /\ \A c \in Calls : Ended(c) => result[c] = Alone(req[c])
    /\ \A c \in Calls, d \in Calls :
          c # d /\ ref[c] # 0 /\ ref[d] # 0 => ref[c] # ref[d]

\* A call that arrived later has returned, and its caller has changed the
\* list it was handed, while an earlier call is between its two statements.
C5_Witness ==
    \E c \in Calls, d \in Calls :
        /\ c < d
        /\ pc[c] = "return"
        /\ Recommended(d)
        /\ heap[ref[d]] # movies
        /\ result[d] = Alone(req[d])

\* C6: the response of every result of recommend holds Inception, Dune: Part
\* Two and Interstellar at positions 1, 2 and 3.
C6_MoviesInOrder ==
    \A c \in Calls :
        Recommended(c) =>
            /\ Len(result[c].response) = 3
            /\ result[c].response[1].title = "Inception"
            /\ result[c].response[2].title = "Dune: Part Two"
            /\ result[c].response[3].title = "Interstellar"

\* The request with the empty genre list has returned.
C6_Witness ==
    \E c \in Calls :
        /\ Recommended(c)
        /\ Sent(c) = <<>>
        /\ result[c].response[3].title = "Interstellar"

\* C7: every POST /recommendations whose body is an array of strings ends
\* with a query/response result and never with an error.
C7_ValidSucceeds ==
    \A c \in Calls :
        req[c].route = "POST /recommendations" /\ req[c].body \in ValidBodies =>
            /\ pc[c] # "rejected"
            /\ outcome[c] # "client_error"
            /\ Ended(c) =>
                  /\ outcome[c] = "ok"
                  /\ {"query", "response"} \subseteq DOMAIN result[c]

\* Requests with a repeated empty string and with the empty list succeeded.
C7_Witness ==
    \E c \in Calls, d \in Calls :
        /\ Recommended(c) /\ Sent(c) = <<JStr(""), JStr("")>> /\ outcome[c] = "ok"
        /\ Recommended(d) /\ Sent(d) = <<>> /\ outcome[d] = "ok"

\* C8: every result of recommend has exactly the fields query and response,
\* and every record of response exactly the six movie fields.
C8_ResultShape ==
    \A c \in Calls :
        Recommended(c) =>
            /\ DOMAIN result[c] = {"query", "response"}
            /\ \A i \in 1..Len(result[c].response) :
                  DOMAIN result[c].response[i] = MovieFields

\* A recommend call with a non-empty genre list has returned three records.
C8_Witness ==
    \E c \in Calls :
        /\ Recommended(c)
        /\ Len(Sent(c)) = MaxLen
        /\ Len(result[c].response) = 3

\* C9: a change a caller makes to the list it was handed, or to a record in
\* it, does not show in a call that builds its list afterwards: that call
\* works on an object of its own and returns the original three records.
C9_ChangesAreNotSeen ==
    \A d \in Calls :
        seen[d] > 0 =>
            /\ \A c \in Calls : c # d /\ ref[c] # 0 => ref[c] # ref[d]
            /\ pc[d] = "return" => heap[ref[d]] = movies
            /\ Recommended(d) => result[d].response = movies

\* One caller changed its list, and a call that built its list after that
\* has returned.
C9_Witness ==
    \E c \in Calls, d \in Calls :
        /\ c # d
        /\ ref[c] # 0 /\ heap[ref[c]] # movies
        /\ Recommended(d) /\ seen[d] > 0
        /\ result[d].response = movies

\* C10: the ids of the records of every response are 1, 2, 3 in order, and
\* so pairwise distinct.
C10_IdsAreOneTwoThree ==
    \A c \in Calls :
        Recommended(c) =>
            /\ \A i \in 1..Len(result[c].response) : result[c].response[i].id = i
            /\ \A i, j \in 1..Len(result[c].response) :
                  i # j => result[c].response[i].id # result[c].response[j].id

\* Every call of the run was a recommend call and has returned.
C10_Witness ==
    \A c \in Calls :
        /\ Recommended(c)
        /\ result[c].response[2].id = 2

====
